---- MODULE Spec2Model ----
(***************************************************************************)
(* hx-optimistic: the update engine of src/src/extension.js together with  *)
(* the helpers it imports (src/hx-optimistic.js, lines 589-812).           *)
(*                                                                         *)
(* The engine keeps three element-keyed stores (snapshots, tokens,         *)
(* sourceTargets) and reacts to the host's events:                         *)
(*   htmx:beforeRequest            -> handleBeforeRequest  ("begin")       *)
(*   htmx:responseError/swapError/                                          *)
(*   htmx:timeout/sendError        -> handleError          ("fail")        *)
(*   htmx:afterSwap                -> cleanup                              *)
(*   a setTimeout callback         -> revert(target, token)                *)
(*                                                                         *)
(* DOM abstraction.  An element is a record                                *)
(*   innerHTML  : the sequence of its child nodes, each an abstract piece  *)
(*                of markup ("orig", "optimistic", "error") or the         *)
(*                engine's <div class="hx-optimistic-error-message">,      *)
(*   className  : the class attribute as the sequence of its tokens, as    *)
(*                written (a repeated token stands for any class string    *)
(*                that is not in the token-list serializer's normal form), *)
(*   dataset    : data-* attributes, key -> value or Absent,               *)
(*   attributes : the remaining attributes, name -> value or Absent,       *)
(*   value      : the value property, which no attribute reflects once it  *)
(*                has been assigned (an input's or textarea's value).      *)
(***************************************************************************)
EXTENDS Integers, Sequences, FiniteSets, Bags, TLC

\* ------------------------------------------------------------------ bounds
MaxBegins == 2      \* begins (htmx:beforeRequest) in one run, all targets
MaxTimers == 2      \* revert callbacks pending at one time
MaxHostBegins == 2  \* begins in one run of HostSpec
MaxPageBegins == 1  \* begins in one run of PageSpec

\* ------------------------------------------------------- program constants
CLASS_OPTIMISTIC == "hx-optimistic"
CLASS_ERROR      == "hx-optimistic-error"
CLASS_REVERTING  == "hx-optimistic-reverting"
CLASS_ERROR_MESSAGE == "hx-optimistic-error-message"
ERROR_SHOWN_KEY  == "hxOptimisticErrorShown"
\* another dataset key with the engine's prefix (no code path writes it)
TOKEN_KEY        == "hxOptimisticToken"
DefaultDelay     == 2000

StateClasses == {CLASS_OPTIMISTIC, CLASS_ERROR, CLASS_REVERTING}

\* "undefined" for a token: WeakMap.get on a missing key
Undefined == 0
\* a dataset key or attribute that the element does not carry
Absent == "<absent>"

\* ---------------------------------------------------------------- elements
Targets == {"t1"}
Sources == {"s1", "s2"}
\* what a trigger's hx-target attribute gives at present: no attribute, a
\* selector that matches no element, or the element the selector resolves to
NoAttr  == "<no hx-target>"
NoMatch == "<no match>"
\* sourceElt.tagName
tagName == [s \in Sources |-> IF s = "s1" THEN "BUTTON" ELSE "DIV"]

DataKeys  == {"foo", ERROR_SHOWN_KEY, TOKEN_KEY}
\* key.startsWith('hxOptimistic')
EngineKeys == {ERROR_SHOWN_KEY, TOKEN_KEY}
AttrNames == {"title"}

\* ----------------------------------------------------------------- configs
\* A config record after getOptimisticConfig filled in the defaults.
\*   values        : the keys of config.values (the value templates are
\*                   rendered to the abstract content "optimistic")
\*   template      : "" (none) or an inline template
\*   swap          : "" (replace innerHTML), "beforeend", "afterbegin"
\*   class         : custom state class, "" when none
\*   errorTemplate : "" (none) or an inline template
\*   errorMode     : "replace" | "append"
\*   delay         : milliseconds, 0 disables the automatic revert
\*   snapshot      : the property names listed in config.snapshot
\*   target        : "" when config.target is not given, else what the
\*                   selector resolves to from the trigger: an element or
\*                   NoMatch
Cfg(values, template, swap, class, errorTemplate, errorMode, delay) ==
  [values |-> values, template |-> template, swap |-> swap, class |-> class,
   errorTemplate |-> errorTemplate, errorMode |-> errorMode,
   errorMessage |-> "Request failed", delay |-> delay, snapshot |-> {},
   target |-> ""]

\* values replace the content; error message replaces it; default delay
ReplaceText == Cfg({"textContent"}, "", "", "", "", "replace", DefaultDelay)
\* values replace the content; error message is appended; default delay
AppendText == Cfg({"textContent"}, "", "", "", "", "append", DefaultDelay)
\* values replace the content; custom class; error template replaces the
\* content; no automatic revert
ReplaceNoRevert == Cfg({"innerHTML"}, "", "", "custom", "errtpl", "replace", 0)
\* values keep the content (class, data-foo, title only); custom class;
\* error message is appended; default delay
KeepValues ==
  Cfg({"className", "data-foo", "title"}, "", "", "custom", "", "append", DefaultDelay)
\* template appended to the content; error template is appended; no
\* automatic revert
KeepTemplateNoRevert == Cfg({}, "tpl", "beforeend", "", "errtpl", "append", 0)

Configs == {ReplaceText, AppendText, ReplaceNoRevert, KeepValues, KeepTemplateNoRevert}

\* the data-optimistic of the two triggers of the target, <<s1, s2>>
ConfigPairs ==
  { <<ReplaceText, KeepValues>>,
    <<AppendText, KeepTemplateNoRevert>>,
    <<ReplaceNoRevert, KeepValues>> }

\* ------------------------------------------------- data-optimistic, raw
\* The raw value of a trigger's data-optimistic attribute:
\*   kind "absent" : no attribute          kind "empty" : the empty string
\*   kind "true"   : the literal "true"    kind "object": JSON of an object
\*   kind "text"   : anything else (JSON of a non-object, or no JSON at all)
\* `supplied` is the object the JSON text denotes, a config record in which a
\* key the text does not give is "", {} or NoDelay.
NoDelay == -1
NoKeys == [values |-> {}, template |-> "", swap |-> "", class |-> "",
           errorTemplate |-> "", errorMode |-> "", errorMessage |-> "",
           delay |-> NoDelay, snapshot |-> {}, target |-> ""]
Raw(kind, supplied) == [kind |-> kind, supplied |-> supplied]
RawAbsent == Raw("absent", NoKeys)
RawEmpty  == Raw("empty", NoKeys)
RawTrue   == Raw("true", NoKeys)
RawText   == Raw("text", NoKeys)
RawObject(supplied) == Raw("object", supplied)

\* ------------------------------------------------------------------- state
VARIABLES
  dom,            \* [element -> element record]
  raw,            \* [Sources -> raw value]: the trigger's data-optimistic
  hxTarget,       \* [Sources -> NoAttr, NoMatch or the element the trigger's
                  \* hx-target resolves to at present]
  configCache,    \* WeakMap trigger -> [raw, config]  (partial function)
  snapshots,      \* WeakMap target -> snapshot        (partial function)
  tokens,         \* WeakMap target -> token           (partial function)
  sourceTargets,  \* WeakMap trigger -> target         (partial function)
  timers,         \* bag of pending setTimeout(revert) callbacks: target,
                  \* expectedToken, and (history) `of`: "current" when it was
                  \* scheduled in the target's latest cycle while that cycle's
                  \* snapshot existed, "earlier" once a later begin occurred,
                  \* "none" when it was scheduled outside a cycle
  requested,      \* history: the triggers htmx:beforeRequest was sent for
  cycles,         \* history: per target, the begins so far [src, token]
  pre,            \* history: per target, the element just before its last begin
  applied,        \* history: per target, the element just after its last begin
  phase,          \* history: per target, what happened since its last begin,
                  \* revert callbacks that returned at a guard aside:
                  \*   "begun"    begin, nothing since
                  \*   "failed"   begin, then one or more failure events on the
                  \*              trigger that began, and acted on
                  \*   "reverted" ... then a revert callback that acted
                  \*   "cleaned"  begin, then cleanup, then only revert callbacks
                  \*   "none"     anything else
  probe           \* the last call of a function applied on its own
                  \* (getOptimisticConfig, interpolateTemplate): its result

vars == <<dom, raw, hxTarget, configCache, snapshots, tokens, sourceTargets,
          timers, requested, cycles, pre, applied, phase, probe>>

\* ------------------------------------------------------------ DOM helpers
RECURSIVE Dedup(_)
\* the ordered-set serializer of DOMTokenList: first occurrences, in order
Dedup(seq) ==
  IF seq = <<>> THEN <<>>
  ELSE LET init == Dedup(SubSeq(seq, 1, Len(seq) - 1))
           x    == seq[Len(seq)]
       IN IF \E i \in 1..Len(init) : init[i] = x THEN init ELSE Append(init, x)

Has(seq, x) == \E i \in 1..Len(seq) : seq[i] = x

\* classList.remove(...toks): drop the tokens, then rewrite the attribute
ClassListRemove(className, toks) ==
  Dedup(SelectSeq(className, LAMBDA c : c \notin toks))

\* classList.add(tok): append when missing, then rewrite the attribute
ClassListAdd(className, tok) == Dedup(Append(className, tok))

StateClassOf(state) ==
  CASE state = "optimistic" -> <<CLASS_OPTIMISTIC>>
    [] state = "error"      -> <<CLASS_ERROR>>
    [] state = "reverting"  -> <<CLASS_REVERTING>>
    [] OTHER                -> <<>>

\* mutant: the state class is added without removing the other two
setOptimisticStateClassKeepingOthers(className, state) ==
  Dedup(className \o StateClassOf(state))

setOptimisticStateClass(className, state) ==
  Dedup(ClassListRemove(className, StateClasses) \o StateClassOf(state))

addCustomOptimisticClass(className, config) ==
  IF config.class # "" THEN ClassListAdd(className, config.class) ELSE className

removeCustomOptimisticClass(className, config) ==
  IF config.class # "" THEN ClassListRemove(className, {config.class}) ELSE className

\* delete every dataset key that starts with hxOptimistic
removeOptimisticDatasetAttributes(dataset) ==
  [k \in DataKeys |-> IF k \in EngineKeys THEN Absent ELSE dataset[k]]

\* querySelectorAll('.hx-optimistic-error-message').forEach(remove)
RemoveErrorMessages(innerHTML) ==
  SelectSeq(innerHTML, LAMBDA n : n # CLASS_ERROR_MESSAGE)

\* ------------------------------------------------------------ store helpers
Get(map, k) == IF k \in DOMAIN map THEN map[k] ELSE Undefined
Put(map, k, v) == [x \in DOMAIN map \cup {k} |-> IF x = k THEN v ELSE map[x]]
Delete(map, k) == [x \in DOMAIN map \ {k} |-> map[x]]
EmptyMap == [x \in {} |-> Undefined]

\* getNextToken: (tokenMap.get(target) || 0) + 1
getNextToken(t) == Get(tokens, t) + 1


TokenOf(t) == Get(tokens, t)
HasSnapshot(t) == t \in DOMAIN snapshots

\* ------------------------------------------------------ config resolution
\* mutant: every element counts as configured
hasOptimisticConfigAlways(s) == TRUE

\* Boolean(element.dataset.optimistic): the empty string is falsy
hasOptimisticConfig(s) == raw[s].kind \notin {"absent", "empty"}

\* getOptimisticConfig, from the raw value to the parsed object: {} for
\* "true", JSON.parse for an object, { values: { textContent: raw } } for
\* JSON of a non-object and for text that is no JSON
ParseRaw(r) ==
  CASE r.kind = "object" -> r.supplied
    [] r.kind = "text"   -> [NoKeys EXCEPT !.values = {"textContent"}]
    [] OTHER             -> NoKeys

\* mutant: delay || 2000, so that a delay of 0 becomes the default
FillDefaultsFalsyDelay(c, s) ==
  [c EXCEPT !.delay = IF @ \in {NoDelay, 0} THEN DefaultDelay ELSE @,
            !.errorMode = IF @ = "" THEN "replace" ELSE @,
            !.errorMessage = IF @ = "" THEN "Request failed" ELSE @,
            !.values = IF c.values = {} /\ c.template = "" /\ tagName[s] = "BUTTON"
                       THEN {"className"} ELSE @]

\* getOptimisticConfig, the defaults: delay ?? 2000, errorMode || 'replace',
\* errorMessage || 'Request failed', and values for a BUTTON that gives
\* neither values nor template
FillDefaults(c, s) ==
  [c EXCEPT !.delay = IF @ = NoDelay THEN DefaultDelay ELSE @,
            !.errorMode = IF @ = "" THEN "replace" ELSE @,
            !.errorMessage = IF @ = "" THEN "Request failed" ELSE @,
            !.values = IF c.values = {} /\ c.template = "" /\ tagName[s] = "BUTTON"
                       THEN {"className"} ELSE @]

\* the config the trigger's present raw value denotes
cfgOf == [s \in Sources |-> FillDefaults(ParseRaw(raw[s]), s)]

\* mutant: the cache is keyed on the element alone
CacheHitByElement(s) == s \in DOMAIN configCache

\* cached && cached.__raw === raw
CacheHit(s) == s \in DOMAIN configCache /\ configCache[s].raw = raw[s]

\* getOptimisticConfig(sourceElt, configCache) when the raw value is truthy:
\* the cached record on a hit, else the record parsed now
getOptimisticConfig(s) ==
  IF CacheHit(s) THEN configCache[s].config ELSE cfgOf[s]

\* the cache after getOptimisticConfig(sourceElt, configCache)
configCacheAfter(s) ==
  IF ~hasOptimisticConfig(s) \/ CacheHit(s) THEN configCache
  ELSE Put(configCache, s, [raw |-> raw[s], config |-> cfgOf[s]])

\* ------------------------------------------------------ target resolution
\* mutant: a selector that matches nothing falls back to the trigger
getTargetForOrTrigger(s) == IF hxTarget[s] \in {NoAttr, NoMatch} THEN s ELSE hxTarget[s]

\* getTargetFor(sourceElt): the trigger itself without hx-target, else what
\* the selector resolves to (NoMatch for null)
getTargetFor(s) == IF hxTarget[s] = NoAttr THEN s ELSE hxTarget[s]

\* mutant: the recorded link is not consulted
errorTargetForWithoutLink(s) ==
  IF hxTarget[s] \notin {NoAttr, NoMatch} THEN hxTarget[s] ELSE s

\* handleError: the selector's element when there is a selector and it
\* resolves, else sourceTargets.get(sourceElt), else sourceElt
errorTargetFor(s) ==
  IF hxTarget[s] \notin {NoAttr, NoMatch} THEN hxTarget[s]
  ELSE IF s \in DOMAIN sourceTargets THEN sourceTargets[s]
  ELSE s

\* snapshot: config.snapshot when it is a non-empty array, else the two
\* default keys
pickKeys(config) ==
  IF config.snapshot # {} THEN config.snapshot ELSE {"innerHTML", "className"}

\* snapshot: what granular[k] captures.  textContent and innerHTML are both
\* the element's content here; a key that is neither of the named ones nor
\* data-* is read as a property of the element
granularValue(el, k) ==
  CASE k \in {"textContent", "innerHTML"} -> [content |-> el.innerHTML]
    [] k = "className" -> [content |-> el.className]
    [] k = "data-foo"  -> [content |-> <<el.dataset["foo"]>>]
    [] k = "title"     -> [content |-> <<el.attributes["title"]>>]
    [] OTHER           -> [content |-> <<el.value>>]

\* ------------------------------------------------------------------ engine
\* mutant: the snapshot is tagged with the token before the increment
snapshotWithPreviousToken(el, config, token) ==
  [innerHTML |-> el.innerHTML,
   className |-> el.className,
   attributes |-> [class |-> el.className, data |-> el.dataset, named |-> el.attributes],
   dataset |-> el.dataset,
   granular |-> [k \in pickKeys(config) |-> granularValue(el, k)],
   config |-> config,
   token |-> token - 1,
   full |-> TRUE]

\* snapshot(targetElt, sourceElt, config, token): the record stored for the
\* target.  `attributes` holds every attribute of the element, the class
\* attribute and the data-* attributes included.
snapshot(el, config, token) ==
  [innerHTML |-> el.innerHTML,
   className |-> el.className,
   attributes |-> [class |-> el.className, data |-> el.dataset, named |-> el.attributes],
   dataset |-> el.dataset,
   granular |-> [k \in pickKeys(config) |-> granularValue(el, k)],
   config |-> config,
   token |-> token,
   full |-> TRUE]

\* the object handleError stores when the target has no snapshot and the
\* focused element is inside the target: { config, token, focusRestore };
\* innerHTML, className, attributes and dataset are undefined (full = FALSE).
\* focusRestore itself is not kept: it is only read to call focus() on it.
BareSnapshot(config, token) ==
  [innerHTML |-> <<>>,
   className |-> <<>>,
   attributes |-> [class |-> <<>>,
                   data |-> [k \in DataKeys |-> Absent],
                   named |-> [a \in AttrNames |-> Absent]],
   dataset |-> [k \in DataKeys |-> Absent],
   granular |-> <<>>,
   config |-> config,
   token |-> token,
   full |-> FALSE]

\* templates: a template string is inline markup or, with a leading '#',
\* the selector of a <template> element of the page
TemplateReferences == {"#tpl", "#missing", "#missing-err"}
\* the <template> elements of the page
PageTemplates == {"#tpl"}
\* templateId.startsWith('#')
IsReference(templateId) == templateId \in TemplateReferences
NullTemplate == "<null>"

\* mutant: a reference that does not resolve is taken as inline markup
getTemplateOrInline(templateId) == templateId

\* getTemplate(templateId): the markup of the referenced <template>, null
\* when there is none, the string itself when it is no reference
getTemplate(templateId) ==
  IF IsReference(templateId)
  THEN (IF templateId \in PageTemplates THEN "template markup" ELSE NullTemplate)
  ELSE templateId

\* applyValues: one assignment per key of config.values
applyValues(el, values) ==
  [innerHTML  |-> IF "textContent" \in values \/ "innerHTML" \in values
                  THEN <<"optimistic">> ELSE el.innerHTML,
   className  |-> IF "className" \in values THEN <<"changed">> ELSE el.className,
   dataset    |-> IF "data-foo" \in values
                  THEN [el.dataset EXCEPT !["foo"] = "baz"] ELSE el.dataset,
   attributes |-> IF "title" \in values
                  THEN [el.attributes EXCEPT !["title"] = "changed"] ELSE el.attributes,
   value      |-> IF "value" \in values THEN "optimistic" ELSE el.value]

\* mutant: begin also writes its bookkeeping on the element
applyOptimisticTaggingToken(el, config) ==
  [applyValues(el, config.values) EXCEPT !.dataset[TOKEN_KEY] = "1"]

\* applyOptimistic: the template (by swap mode) when getTemplate gives one,
\* nothing when it gives none, and the values when no template is configured
applyOptimistic(el, config) ==
  IF config.template # ""
  THEN IF getTemplate(config.template) = NullTemplate THEN el
       ELSE [el EXCEPT !.innerHTML =
               IF config.swap = "beforeend" THEN Append(el.innerHTML, "optimistic")
               ELSE IF config.swap = "afterbegin" THEN <<"optimistic">> \o el.innerHTML
               ELSE <<"optimistic">>]
  ELSE applyValues(el, config.values)

\* applyOptimistic: the element that gets the optimistic content, the one
\* config.target resolves to when it is given and resolves, else targetElt
optimisticTargetFor(t, config) ==
  IF config.target \notin {"", NoMatch} THEN config.target ELSE t

\* applyOptimistic calls console.warn: the template is a reference that did
\* not resolve
applyOptimisticWarns(config) ==
  /\ config.template # ""
  /\ getTemplate(config.template) = NullTemplate
  /\ IsReference(config.template)

\* showError: nothing when the marker is set; else set it and render the
\* error template or the error message, appended or replacing
showError(el, config) ==
  IF el.dataset[ERROR_SHOWN_KEY] # Absent THEN el
  ELSE IF config.errorTemplate # "" /\ getTemplate(config.errorTemplate) = NullTemplate
  THEN [el EXCEPT !.dataset[ERROR_SHOWN_KEY] = "true"]
  ELSE [el EXCEPT !.dataset[ERROR_SHOWN_KEY] = "true",
                  !.innerHTML = IF config.errorMode = "append"
                                THEN Append(el.innerHTML, CLASS_ERROR_MESSAGE)
                                ELSE <<"error">>]

\* showError calls console.warn: the marker is not set and the error
\* template is a reference that did not resolve
showErrorWarns(el, config) ==
  /\ el.dataset[ERROR_SHOWN_KEY] = Absent
  /\ config.errorTemplate # ""
  /\ getTemplate(config.errorTemplate) = NullTemplate
  /\ IsReference(config.errorTemplate)

\* mutant: cleanup puts the snapshot's markup back
cleanupElementRestoring(el, hasSnap, snap) ==
  LET c1 == setOptimisticStateClass(el.className, "clean")
      c2 == IF hasSnap /\ snap.config.class # ""
            THEN removeCustomOptimisticClass(c1, snap.config) ELSE c1
  IN [innerHTML  |-> IF hasSnap /\ snap.full THEN snap.innerHTML
                     ELSE RemoveErrorMessages(el.innerHTML),
      className  |-> c2,
      dataset    |-> removeOptimisticDatasetAttributes(el.dataset),
      attributes |-> el.attributes,
      value      |-> el.value]

\* cleanup(target), the DOM part; snap is snapshots.get(target) or absent
cleanupElement(el, hasSnap, snap) ==
  LET c1 == setOptimisticStateClass(el.className, "clean")
      c2 == IF hasSnap /\ snap.config.class # ""
            THEN removeCustomOptimisticClass(c1, snap.config) ELSE c1
  IN [innerHTML  |-> RemoveErrorMessages(el.innerHTML),
      className  |-> c2,
      dataset    |-> removeOptimisticDatasetAttributes(el.dataset),
      attributes |-> el.attributes,
      value      |-> el.value]

\* mutant: cleanup empties the snapshot store
cleanupSnapshotsAll(t) == EmptyMap

\* mutant: cleanup leaves the snapshot in the store
cleanupSnapshotsKept(t) == snapshots

\* cleanup(target), the store part: if (snap) snapshots.delete(target)
cleanupSnapshots(t) == Delete(snapshots, t)

\* mutant: revert restores markup and class but not attributes and dataset
revertElementMarkupOnly(el, snap) ==
  cleanupElement(
    [innerHTML  |-> IF snap.full THEN snap.innerHTML ELSE el.innerHTML,
     className  |-> IF snap.full THEN snap.className ELSE el.className,
     dataset    |-> el.dataset,
     attributes |-> el.attributes,
     value      |-> el.value], FALSE, snap)

\* revert(target, expectedToken) past its two guards, the DOM part: restore
\* from the snapshot, then cleanup (the snapshot is already deleted then)
revertElement(el, snap) ==
  LET restored ==
        IF snap.full
        THEN [innerHTML  |-> snap.innerHTML,
              className  |-> snap.attributes.class,
              dataset    |-> snap.dataset,
              attributes |-> snap.attributes.named,
              value      |-> el.value]
        ELSE [innerHTML  |-> el.innerHTML,
              className  |-> <<>>,
              dataset    |-> [k \in DataKeys |-> Absent],
              attributes |-> [a \in AttrNames |-> Absent],
              value      |-> el.value]
  IN cleanupElement(restored, FALSE, snap)

\* mutant: no revert is ever scheduled
schedulesRevertNever(config) == FALSE

\* handleError: if (config.delay > 0) setTimeout(revert, config.delay)
schedulesRevert(config) == config.delay > 0

revertPasses(t, expectedToken) ==
  /\ HasSnapshot(t)
  /\ ~(expectedToken # Undefined /\ snapshots[t].token # expectedToken)

\* ----------------------------------------------------------------- history
Epoch(t) == Len(cycles[t])
Begins == LET Sum[S \in SUBSET DOMAIN cycles] ==
                IF S = {} THEN 0
                ELSE LET x == CHOOSE y \in S : TRUE IN Epoch(x) + Sum[S \ {x}]
          IN Sum[DOMAIN cycles]
\* pre and applied are kept only while the phase still refers to them
KeepPre(ph) == ph \in {"begun", "failed", "reverted"}
KeepApplied(ph) == ph \in {"begun", "cleaned"}
StateClassesOn(el) == {c \in StateClasses : Has(el.className, c)}
IsClean(el) == StateClassesOn(el) = {}

\* the pending timers after a begin on t: those of t's cycle become "earlier"
Supersede(t) ==
  LET old(tm) == IF tm.target = t /\ tm.of = "current"
                 THEN [tm EXCEPT !.of = "earlier"] ELSE tm
      new == {old(tm) : tm \in BagToSet(timers)}
      count(n) == LET S == {tm \in BagToSet(timers) : old(tm) = n}
                      Sum[X \in SUBSET S] ==
                        IF X = {} THEN 0
                        ELSE LET x == CHOOSE y \in X : TRUE
                             IN timers[x] + Sum[X \ {x}]
                  IN Sum[S]
  IN [n \in new |-> count(n)]

\* -------------------------------------------------------------------- Init
InitialClassNames == { <<"a">>, <<"a", "a">> }

\* probe before any function was applied on its own
NoCall == [fn |-> "none"]

\* an element of the page before the engine acted on it
InitialElement(c) ==
  [innerHTML  |-> <<"orig">>,
   className  |-> c,
   dataset    |-> [k \in DataKeys |-> IF k = "foo" THEN "bar" ELSE Absent],
   attributes |-> [a \in AttrNames |-> "t"],
   value      |-> "typed"]

\* the engine after createExtension, with the elements E on the page
FreshEngine(E, C) ==
  /\ \E c \in C : dom = [e \in E |-> InitialElement(c)]
  /\ configCache = EmptyMap
  /\ snapshots = EmptyMap
  /\ tokens = EmptyMap
  /\ sourceTargets = EmptyMap
  /\ timers = EmptyBag
  /\ requested = {}
  /\ cycles = [e \in E |-> <<>>]
  /\ pre = dom
  /\ applied = dom
  /\ phase = [e \in E |-> "none"]

\* two triggers with a config each and the same target
Init ==
  /\ FreshEngine(Targets, InitialClassNames)
  /\ \E p \in ConfigPairs :
       raw = [s \in Sources |-> RawObject(IF s = "s1" THEN p[1] ELSE p[2])]
  /\ hxTarget = [s \in Sources |-> "t1"]
  /\ probe = NoCall

\* ----------------------------------------------------------------- actions
\* handleBeforeRequest(evt), evt.target = s
handleBeforeRequest(s) ==
  LET t        == getTargetFor(s)
      config   == getOptimisticConfig(s)
      newToken == getNextToken(t)
      el       == dom[t]
      o        == optimisticTargetFor(t, config)
      mutated  == [dom EXCEPT ![o] = applyOptimistic(@, config)]
      el2      == [mutated[t] EXCEPT !.className =
                     addCustomOptimisticClass(
                       setOptimisticStateClass(@, "optimistic"), config)]
  IN /\ requested' = requested \cup {s}
     /\ configCache' = configCacheAfter(s)
     /\ IF ~hasOptimisticConfig(s) \/ t = NoMatch
        THEN UNCHANGED <<dom, snapshots, tokens, sourceTargets, timers,
                         cycles, pre, applied, phase>>
        ELSE /\ sourceTargets' = Put(sourceTargets, s, t)
             /\ tokens' = Put(tokens, t, newToken)
             /\ snapshots' = Put(snapshots, t, snapshot(el, config, newToken))
             /\ dom' = [mutated EXCEPT ![t] = el2]
             /\ cycles' = [cycles EXCEPT ![t] = Append(@, [src |-> s, token |-> newToken])]
             /\ pre' = [pre EXCEPT ![o] = IF KeepPre(phase[o]) THEN @ ELSE mutated[o],
                                   ![t] = el]
             /\ applied' = [applied EXCEPT ![o] = IF KeepApplied(phase[o]) THEN @ ELSE mutated[o],
                                           ![t] = el2]
             /\ phase' = [phase EXCEPT ![t] = "begun"]
             /\ timers' = Supersede(t)
     /\ UNCHANGED <<raw, hxTarget>>

\* htmx:beforeRequest on trigger s
Begin(s) ==
  /\ Begins < MaxBegins
  /\ handleBeforeRequest(s)
  /\ UNCHANGED probe

\* the cycles of its target that trigger s began
CyclesOf(s) ==
  {i \in 1..Epoch(hxTarget[s]) : cycles[hxTarget[s]][i].src = s}

\* handleError(evt), evt.detail.elt = s
\*   focused : document.activeElement is inside the target
handleError(s, focused) ==
  LET t            == errorTargetFor(s)
      hasSnap      == HasSnapshot(t)
      hasConfig    == hasSnap \/ hasOptimisticConfig(s)
      config       == IF hasSnap THEN snapshots[t].config ELSE getOptimisticConfig(s)
      currentToken == TokenOf(t)
      isStale      == hasSnap /\ snapshots[t].token # currentToken
      existing     == IF hasSnap THEN snapshots[t] ELSE BareSnapshot(config, currentToken)
      el           == dom[t]
      el1          == [el EXCEPT !.className = setOptimisticStateClass(el.className, "error")]
      el2          == showError(el1, config)
      schedules    == hasConfig /\ ~isStale /\ schedulesRevert(config)
      timer        == [target |-> t, expectedToken |-> currentToken,
                       of |-> IF hasSnap /\ snapshots[t].full THEN "current" ELSE "none"]
  IN /\ schedules => BagCardinality(timers) < MaxTimers
     /\ configCache' = IF hasSnap THEN configCache ELSE configCacheAfter(s)
     /\ IF ~hasConfig \/ isStale
        THEN UNCHANGED <<dom, snapshots, timers>>
        ELSE /\ snapshots' = IF focused THEN Put(snapshots, t, existing) ELSE snapshots
             /\ dom' = [dom EXCEPT ![t] = el2]
             /\ timers' = IF schedules THEN timers (+) SetToBag({timer}) ELSE timers
     /\ phase' = [phase EXCEPT ![t] =
                    IF /\ @ \in {"begun", "failed"}
                       /\ ~isStale
                       /\ cycles[t][Epoch(t)].src = s
                    THEN "failed" ELSE "none"]
     /\ pre' = [pre EXCEPT ![t] = IF KeepPre(phase'[t]) THEN @ ELSE dom'[t]]
     /\ applied' = [applied EXCEPT ![t] = IF KeepApplied(phase'[t]) THEN @ ELSE dom'[t]]
     /\ UNCHANGED <<raw, hxTarget, tokens, sourceTargets, requested, cycles>>

\* one of the four failure events on trigger s -> handleError.  A failure
\* event follows the htmx:beforeRequest of its request; the event does not
\* say which of the trigger's requests failed.  The host may send more than
\* one for a request, and may send it after the cycle has ended.
Fail(s, focused) ==
  /\ s \in requested
  /\ handleError(s, focused)
  /\ UNCHANGED probe

\* cleanup(target)
cleanup(t) ==
  LET hasSnap == HasSnapshot(t)
      snap    == IF hasSnap THEN snapshots[t] ELSE BareSnapshot(cfgOf["s1"], Undefined)
  IN /\ dom' = [dom EXCEPT ![t] = cleanupElement(dom[t], hasSnap, snap)]
     /\ snapshots' = cleanupSnapshots(t)
     /\ phase' = [phase EXCEPT ![t] = IF phase[t] = "begun" THEN "cleaned" ELSE "none"]
     /\ pre' = [pre EXCEPT ![t] = IF KeepPre(phase'[t]) THEN @ ELSE dom'[t]]
     /\ applied' = [applied EXCEPT ![t] = IF KeepApplied(phase'[t]) THEN @ ELSE dom'[t]]
     /\ UNCHANGED <<raw, hxTarget, configCache, tokens, sourceTargets, timers,
                    requested, cycles>>

\* htmx:afterSwap with evt.target = t -> cleanup(t)
AfterSwap(t) ==
  /\ cleanup(t)
  /\ UNCHANGED probe

\* the callback of a pending timer runs: revert(tm.target, tm.expectedToken)
TimerFires(tm) ==
  LET t      == tm.target
      passes == revertPasses(t, tm.expectedToken)
  IN /\ BagIn(tm, timers)
     /\ timers' = timers (-) SetToBag({tm})
     /\ IF passes
        THEN /\ dom' = [dom EXCEPT ![t] = revertElement(dom[t], snapshots[t])]
             /\ snapshots' = Delete(snapshots, t)
             /\ tokens' = Delete(tokens, t)
        ELSE UNCHANGED <<dom, snapshots, tokens>>
     /\ phase' = [phase EXCEPT ![t] =
                    IF ~passes \/ @ = "cleaned" THEN @
                    ELSE IF @ = "failed" THEN "reverted" ELSE "none"]
     /\ pre' = [pre EXCEPT ![t] = IF KeepPre(phase'[t]) THEN @ ELSE dom'[t]]
     /\ applied' = [applied EXCEPT ![t] = IF KeepApplied(phase'[t]) THEN @ ELSE dom'[t]]
     /\ UNCHANGED <<raw, hxTarget, configCache, sourceTargets, requested, cycles>>

\* a pending timer fires
FireTimer(tm) ==
  /\ TimerFires(tm)
  /\ UNCHANGED probe

Next ==
  \/ \E s \in Sources : Begin(s)
  \/ \E s \in Sources, focused \in BOOLEAN : Fail(s, focused)
  \/ \E t \in Targets : AfterSwap(t)
  \/ \E tm \in BagToSet(timers) : FireTimer(tm)

Spec == Init /\ [][Next]_vars

\* the fairness setTimeout gives: while callbacks are pending on a target,
\* one of them eventually fires
FirePending(t) == \E tm \in BagToSet(timers) : tm.target = t /\ FireTimer(tm)

LiveSpec == Spec /\ \A t \in Targets : WF_vars(FirePending(t))

\* ------------------------------------------------- the host and its events
\* One trigger s1 on a page with the elements t1 and s1 itself.  The host
\* sends the engine every event through onEvent; the page may change what
\* the trigger's hx-target resolves to at any time.
HostElements == {"t1", "s1"}
HostSources  == {"s1"}
HxTargets    == {NoAttr, NoMatch, "t1"}

\* { values: { textContent, data-foo, value }, snapshot: [ the same ] }
SnapshotListCfg ==
  [NoKeys EXCEPT !.values = {"textContent", "data-foo", "value"},
                 !.snapshot = {"textContent", "data-foo", "value"}]

HostRaws == {RawAbsent, RawEmpty, RawTrue, RawText, RawObject(SnapshotListCfg)}

\* mutant: htmx:timeout is not in the list
FailureEventsWithoutTimeout ==
  {"htmx:responseError", "htmx:swapError", "htmx:sendError"}

\* onEvent: the names routed to handleError
FailureEvents ==
  {"htmx:responseError", "htmx:swapError", "htmx:timeout", "htmx:sendError"}

\* the events the host sends the extension, htmx:afterRequest standing for
\* those onEvent ignores
EventNames ==
  {"htmx:beforeRequest", "htmx:responseError", "htmx:swapError", "htmx:timeout",
   "htmx:sendError", "htmx:afterSwap", "htmx:afterRequest"}

\* onEvent(name, evt) with evt.target (evt.detail.elt of a failure) = elt
onEvent(name, elt, focused) ==
  IF name = "htmx:beforeRequest" THEN handleBeforeRequest(elt)
  ELSE IF name \in FailureEvents THEN handleError(elt, focused)
  ELSE IF name = "htmx:afterSwap" THEN cleanup(elt)
  ELSE UNCHANGED <<dom, raw, hxTarget, configCache, snapshots, tokens,
                   sourceTargets, timers, requested, cycles, pre, applied, phase>>

\* history: which of its three sources gave handleError its target
TargetVia(s) ==
  IF hxTarget[s] \notin {NoAttr, NoMatch} THEN "selector"
  ELSE IF s \in DOMAIN sourceTargets THEN "link"
  ELSE "trigger"

\* The host dispatches an event.  Only triggers send requests, so only they
\* get htmx:beforeRequest, and a failure event follows the htmx:beforeRequest
\* of its request.  probe keeps the last failure event.
HostEvent(name, elt, focused) ==
  /\ name = "htmx:beforeRequest" => elt \in HostSources
  /\ name \in FailureEvents => elt \in requested
  /\ onEvent(name, elt, focused)
  /\ probe' = IF name \in FailureEvents
              THEN [fn |-> "handleError", elt |-> elt, via |-> TargetVia(elt)]
              ELSE probe

\* the host's events other than htmx:beforeRequest and the failure events
OtherEvent ==
  \E name \in EventNames \ (FailureEvents \cup {"htmx:beforeRequest"}),
     elt \in HostElements :
    HostEvent(name, elt, FALSE)

\* the page with trigger s1, whose data-optimistic is one of R and whose
\* hx-target is as one of H, the elements' class attribute one of C
HostInitWith(R, H, C) ==
  /\ FreshEngine(HostElements, C)
  /\ \E r \in R :
       raw = [s \in Sources |-> IF s \in HostSources THEN r ELSE RawAbsent]
  /\ \E h \in H :
       hxTarget = [s \in Sources |-> IF s \in HostSources THEN h ELSE NoAttr]
  /\ probe = NoCall

\* a page whose hx-target attributes and elements stay as they are
HostInit == HostInitWith(HostRaws, HxTargets, {<<"a">>})

HostNext ==
  \/ /\ Begins < MaxHostBegins
     /\ \E s \in HostSources : HostEvent("htmx:beforeRequest", s, FALSE)
  \/ \E name \in EventNames \cap FailureEvents, s \in HostSources, focused \in BOOLEAN :
       HostEvent(name, s, focused)
  \/ OtherEvent
  \/ \E tm \in BagToSet(timers) : FireTimer(tm)

HostSpec == HostInit /\ [][HostNext]_vars

\* a page that changes under the engine: the trigger's hx-target changes, or
\* the elements its selector matches
Retarget(s, r) ==
  /\ hxTarget[s] # r
  /\ hxTarget' = [hxTarget EXCEPT ![s] = r]
  /\ UNCHANGED <<dom, raw, configCache, snapshots, tokens, sourceTargets,
                 timers, requested, cycles, pre, applied, phase, probe>>

PageInit == HostInitWith({RawTrue}, HxTargets, {<<"a">>})

\* on this page the host sends no failure while a revert callback is
\* pending on the element the failure would act on
PageNext ==
  \/ /\ Begins < MaxPageBegins
     /\ \E s \in HostSources : HostEvent("htmx:beforeRequest", s, FALSE)
  \/ \E name \in EventNames \cap FailureEvents, s \in HostSources, focused \in BOOLEAN :
       /\ \A tm \in BagToSet(timers) : tm.target # errorTargetFor(s)
       /\ HostEvent(name, s, focused)
  \/ OtherEvent
  \/ \E tm \in BagToSet(timers) : FireTimer(tm)
  \/ \E s \in HostSources, r \in HxTargets : Retarget(s, r)

PageSpec == PageInit /\ [][PageNext]_vars

\* ------------------------------------------------------ config resolution
\* One trigger s1 with target t1 whose data-optimistic the page rewrites
\* between events; getOptimisticConfig is also called on its own, and probe
\* keeps what the last such call was given and what it returned.
ConfigSources == {"s1"}

\* { values: { textContent }, delay: 0 }
ZeroDelayCfg == [NoKeys EXCEPT !.values = {"textContent"}, !.delay = 0]
\* { values: { textContent }, errorMode: "append", errorMessage: "Oops" }
OwnErrorCfg ==
  [NoKeys EXCEPT !.values = {"textContent"}, !.errorMode = "append",
                 !.errorMessage = "Oops"]

ConfigRaws ==
  {RawAbsent, RawTrue, RawText, RawObject(ZeroDelayCfg), RawObject(OwnErrorCfg)}

\* the page rewrites the trigger's data-optimistic
SetRaw(s, r) ==
  /\ raw[s] # r
  /\ raw' = [raw EXCEPT ![s] = r]
  /\ UNCHANGED <<dom, hxTarget, configCache, snapshots, tokens, sourceTargets,
                 timers, requested, cycles, pre, applied, phase, probe>>

\* getOptimisticConfig(s, configCache); null when line 592 returns
Resolve(s) ==
  /\ configCache' = configCacheAfter(s)
  /\ probe' = [fn |-> "getOptimisticConfig", elt |-> s, raw |-> raw[s],
               null |-> ~hasOptimisticConfig(s),
               config |-> IF hasOptimisticConfig(s) THEN getOptimisticConfig(s)
                          ELSE NoKeys,
               cached |-> IF s \notin DOMAIN configCache THEN "none"
                          ELSE IF configCache[s].raw = raw[s] THEN "same raw"
                          ELSE "other raw"]
  /\ UNCHANGED <<dom, raw, hxTarget, snapshots, tokens, sourceTargets, timers,
                 requested, cycles, pre, applied, phase>>

ConfigInit ==
  /\ FreshEngine(Targets, {<<"a">>})
  /\ \E r \in ConfigRaws :
       raw = [s \in Sources |-> IF s \in ConfigSources THEN r ELSE RawAbsent]
  /\ hxTarget = [s \in Sources |-> "t1"]
  /\ probe = NoCall

ConfigNext ==
  \/ \E s \in ConfigSources, r \in ConfigRaws : SetRaw(s, r)
  \/ \E s \in ConfigSources : Resolve(s)
  \/ \E s \in ConfigSources : Begin(s)
  \/ \E s \in ConfigSources, focused \in BOOLEAN : Fail(s, focused)

ConfigSpec == ConfigInit /\ [][ConfigNext]_vars

\* ------------------------------------------------------------ interpolation
\* A template is a sequence of pieces, each literal text or a placeholder
\* ${...}.  An expression is what stands between ${ and }, trimmed:
\*   text : the expression as written
\*   form : how the code's tests read it: "this.value", "this.textContent",
\*          "this.dataset." + name, "data:" + name, "attr:" + name, "bare"
\*          (an identifier, name) or "other" (anything else)
MaxLen == 2     \* pieces in a template

Expr(form, name, text) == [form |-> form, name |-> name, text |-> text]
Bare(n)   == Expr("bare", n, n)
Other(t)  == Expr("other", "", t)
ThisValue == Expr("this.value", "", "this.value")
ThisTextContent == Expr("this.textContent", "", "this.textContent")

Exprs ==
  { Bare("status"), Bare("email"), Bare("username"), Bare("constructor"),
    ThisValue, ThisTextContent,
    Expr("this.dataset.", "count", "this.dataset.count"),
    Expr("data:", "user-id", "data:user-id"),
    Expr("data:", "nonexistent", "data:nonexistent"),
    Expr("attr:", "href", "attr:href"),
    Expr("attr:", "missing", "attr:missing"),
    Other("count ++ 3"), Other("eval(\"alert(1)\")"), Other("window.location") }

TextPiece(t)   == [kind |-> "text", expr |-> Expr("", "", t)]
Placeholder(e) == [kind |-> "placeholder", expr |-> e]
Pieces == {TextPiece("Hello ")} \cup {Placeholder(e) : e \in Exprs}
Templates == UNION {[1..n -> Pieces] : n \in 1..MaxLen}

\* undefined, as a value of a lookup
UndefinedValue == "<undefined>"
\* v is truthy: neither undefined (or null) nor the empty string
Truthy(v) == v \notin {UndefinedValue, ""}

\* the members every plain object inherits from Object.prototype, and what
\* String() makes of such a member
InheritedKeys == {"constructor"}
NativeCode == "function Object() { [native code] }"

\* data[expr]
DataGet(data, k) ==
  IF k \in DOMAIN data THEN data[k]
  ELSE IF k \in InheritedKeys THEN NativeCode
  ELSE UndefinedValue

\* key.replace(/-([a-z])/g, (m, l) => l.toUpperCase())
CamelKey(k) ==
  CASE k = "user-id" -> "userId"
    [] OTHER -> k

\* the expressions that contain a double quote
WithQuote == {"eval(\"alert(1)\")"}
\* expr.includes('.') || expr.includes(':')
HasDotOrColon(e) ==
  \/ e.form \in {"this.value", "this.textContent", "this.dataset.", "data:", "attr:"}
  \/ e.text \in {"window.location"}

\* the keys of `selectors`: form fields found by type
FieldAliases == {"textarea", "email", "password", "text", "url", "tel", "search"}
\* querySelector accepts selectors[expr], and [name="expr"] unless expr
\* ends the quoted string early
ValidSelector(e) == e.text \in FieldAliases \/ e.text \notin WithQuote
\* sourceElt.querySelector(selector)?.value
FieldValue(src, t) ==
  IF t \in FieldAliases
  THEN (IF t \in DOMAIN src.byType THEN src.byType[t] ELSE UndefinedValue)
  ELSE (IF t \in DOMAIN src.byName THEN src.byName[t] ELSE UndefinedValue)

Lookup(f, k) == IF k \in DOMAIN f THEN f[k] ELSE UndefinedValue
NoEntries == [k \in {} |-> ""]

\* source elements: none, a link, an input, a form with two fields, a form
\* whose data attributes, attribute and fields are empty strings
Source(tag, value, textContent, dataset, attributes, firstInput, byType, byName) ==
  [tag |-> tag, value |-> value, textContent |-> textContent,
   dataset |-> dataset, attributes |-> attributes,
   firstInput |-> firstInput, byType |-> byType, byName |-> byName]
NullSource ==
  Source("null", UndefinedValue, "", NoEntries, NoEntries, UndefinedValue,
         NoEntries, NoEntries)
LinkSource ==
  Source("A", UndefinedValue, "My Page",
         [k \in {"count", "userId"} |-> IF k = "count" THEN "5" ELSE "42"],
         [k \in {"href"} |-> "/page"], UndefinedValue, NoEntries, NoEntries)
InputSource ==
  Source("INPUT", "X", "", NoEntries, NoEntries, UndefinedValue,
         NoEntries, NoEntries)
FormSource ==
  Source("FORM", UndefinedValue, "", NoEntries, NoEntries, "a@b.c",
         [k \in {"email"} |-> "a@b.c"], [k \in {"username"} |-> "bob"])
\* <form data-count="" data-user-id="" href=""> with an empty email field
\* and an empty field named username
BlankFormSource ==
  Source("FORM", UndefinedValue, "",
         [k \in {"count", "userId"} |-> ""], [k \in {"href"} |-> ""], "",
         [k \in {"email"} |-> ""], [k \in {"username"} |-> ""])
SourceElts == {NullSource, LinkSource, InputSource, FormSource, BlankFormSource}

\* the third argument: {} by default, the config's context, the error data
DataMaps ==
  { NoEntries, [k \in {"status"} |-> "500"], [k \in {"email"} |-> "ctx"] }

\* what the replace callback does with one placeholder: the piece it
\* returns, whether it warned, whether it threw
Outcome(piece, warned, threw) == [piece |-> piece, warned |-> warned, threw |-> threw]

\* the callback with the form fields consulted before the extra map
ReplacerFormFirst(e, src, data) ==
  IF src.tag = "FORM" /\ ValidSelector(e) /\ Truthy(FieldValue(src, e.text))
  THEN Outcome(TextPiece(FieldValue(src, e.text)), FALSE, FALSE)
  ELSE IF DataGet(data, e.text) # UndefinedValue
  THEN Outcome(TextPiece(DataGet(data, e.text)), FALSE, FALSE)
  ELSE Outcome(Placeholder(e), HasDotOrColon(e), FALSE)

\* interpolateTemplate: the callback of str.replace, for ${e}
Replacer(e, src, data) ==
  LET match == Placeholder(e)
      or(v) == Outcome(IF Truthy(v) THEN TextPiece(v) ELSE match, FALSE, FALSE)
  IN IF DataGet(data, e.text) # UndefinedValue
     THEN Outcome(TextPiece(DataGet(data, e.text)), FALSE, FALSE)
     ELSE IF src.tag = "null" THEN Outcome(match, FALSE, FALSE)
     ELSE IF e.text = "this.value" /\ src.value # UndefinedValue
     THEN Outcome(TextPiece(src.value), FALSE, FALSE)
     ELSE IF e.text = "this.value" /\ src.tag = "FORM" /\ Truthy(src.firstInput)
     THEN Outcome(TextPiece(src.firstInput), FALSE, FALSE)
     ELSE IF src.tag = "FORM" /\ ~ValidSelector(e)
     THEN Outcome(match, FALSE, TRUE)
     ELSE IF src.tag = "FORM" /\ Truthy(FieldValue(src, e.text))
     THEN Outcome(TextPiece(FieldValue(src, e.text)), FALSE, FALSE)
     ELSE IF e.text = "this.textContent" THEN or(src.textContent)
     ELSE IF e.form = "this.dataset." THEN or(Lookup(src.dataset, e.name))
     ELSE IF e.form = "data:" THEN or(Lookup(src.dataset, CamelKey(e.name)))
     ELSE IF e.form = "attr:" THEN or(Lookup(src.attributes, e.name))
     ELSE Outcome(match, HasDotOrColon(e), FALSE)

\* interpolateTemplate(str, sourceElt, data): the pieces of the result, the
\* placeholders for which console.warn was called and their number, and
\* whether the call threw (then there is no result, and the callback was
\* not called for the later placeholders)
interpolateTemplate(str, src, data) ==
  LET each == [i \in 1..Len(str) |->
                 IF str[i].kind = "text" THEN Outcome(str[i], FALSE, FALSE)
                 ELSE Replacer(str[i].expr, src, data)]
      threwAt == {i \in 1..Len(str) : each[i].threw}
      called == {i \in 1..Len(str) : \A j \in threwAt : i <= j}
  IN [threw |-> threwAt # {},
      out |-> IF threwAt # {} THEN <<>> ELSE [i \in 1..Len(str) |-> each[i].piece],
      warnedAt |-> {i \in called : each[i].warned},
      warnings |-> Cardinality({i \in called : each[i].warned})]

InterpInit ==
  /\ FreshEngine(Targets, {<<"a">>})
  /\ raw = [s \in Sources |-> RawAbsent]
  /\ hxTarget = [s \in Sources |-> "t1"]
  /\ \E str \in Templates, src \in SourceElts, data \in DataMaps :
       probe = [fn |-> "input", str |-> str, source |-> src, data |-> data]

\* interpolateTemplate(str, sourceElt, data) is called
Interpolate ==
  /\ probe.fn = "input"
  /\ probe' = [fn |-> "interpolateTemplate", str |-> probe.str,
               source |-> probe.source, data |-> probe.data,
               result |-> interpolateTemplate(probe.str, probe.source, probe.data)]
  /\ UNCHANGED <<dom, raw, hxTarget, configCache, snapshots, tokens,
                 sourceTargets, timers, requested, cycles, pre, applied, phase>>

InterpSpec == InterpInit /\ [][Interpolate]_vars

\* -------------------------------------------------------- target resolver
\* The page: elements in document order, each with its parent (0 for the
\* root), tag name and class.
\*   1 html
\*   2   body
\*   3     div.card
\*   4       button
\*   5       h2.title
\*   6     div.card
\*   7       h2.title
\*   8       button
\*   9     next-steps
MaxTokens == 4     \* whitespace-separated tokens in a target selector

NullElt == 0
Node(parent, tag, class) == [parent |-> parent, tag |-> tag, class |-> class]
Page ==
  << Node(0, "html", ""), Node(1, "body", ""),
     Node(2, "div", "card"), Node(3, "button", ""), Node(3, "h2", "title"),
     Node(2, "div", "card"), Node(6, "h2", "title"), Node(6, "button", ""),
     Node(2, "next-steps", "") >>
Elts == 1..Len(Page)

Min(S) == CHOOSE x \in S : \A y \in S : x <= y
Max(S) == CHOOSE x \in S : \A y \in S : y <= x
First(S) == IF S = {} THEN NullElt ELSE Min(S)
Last(S) == IF S = {} THEN NullElt ELSE Max(S)

\* the four combinators, and the tokens a target selector is made of: the
\* combinators, "this", class selectors and tag selectors
Combinators == {"closest", "find", "next", "previous"}
Tokens == Combinators \cup {"this", ".card", ".title", ".none", "next-steps"}
\* targetSelector, trimmed and split at whitespace
TargetSelectors == UNION {[1..n -> Tokens] : n \in 0..MaxTokens}

\* token.startsWith(op)
StartsWith(token, op) == token = op \/ <<token, op>> \in {<<"next-steps", "next">>}

\* el.matches(sel) for a selector of one token
matches(n, sel) ==
  CASE sel = ".card" -> Page[n].class = "card"
    [] sel = ".title" -> Page[n].class = "title"
    [] sel = ".none" -> FALSE
    [] OTHER -> Page[n].tag = sel

parentElement(n) == Page[n].parent
RECURSIVE AncestorsOf(_)
\* n and the elements above it
AncestorsOf(n) == IF n = NullElt THEN {} ELSE {n} \cup AncestorsOf(parentElement(n))
DescendantsOf(n) == {m \in Elts : m # n /\ n \in AncestorsOf(m)}

RECURSIVE MatchesSelector(_, _)
\* el.matches(selector) for tokens joined by the descendant combinator
MatchesSelector(n, toks) ==
  /\ matches(n, toks[Len(toks)])
  /\ \/ Len(toks) = 1
     \/ \E a \in AncestorsOf(parentElement(n)) :
          MatchesSelector(a, SubSeq(toks, 1, Len(toks) - 1))

\* what a DOM query gives: an element or null, or a SyntaxError for the
\* empty selector
Found(elt) == [threw |-> FALSE, elt |-> elt]
SyntaxError == [threw |-> TRUE, elt |-> NullElt]

\* context.closest(sel)
closest(n, sel) ==
  IF sel = "" THEN SyntaxError
  ELSE Found(Last({a \in AncestorsOf(n) : matches(a, sel)}))
\* context.querySelector(sel)
querySelector(n, sel) ==
  IF sel = "" THEN SyntaxError
  ELSE Found(First({d \in DescendantsOf(n) : matches(d, sel)}))
\* document.querySelector(selector)
documentQuerySelector(toks) == Found(First({n \in Elts : MatchesSelector(n, toks)}))

\* the siblings after and before n, in document order
NextSiblings(n) == {m \in Elts : parentElement(m) = parentElement(n) /\ m > n}
PreviousSiblings(n) == {m \in Elts : parentElement(m) = parentElement(n) /\ m < n}

RECURSIVE findClosestInAncestorSubtrees(_, _)
findClosestInAncestorSubtrees(startElt, selector) ==
  IF startElt = NullElt THEN Found(NullElt)
  ELSE LET match == querySelector(startElt, selector)
       IN IF match.threw \/ match.elt # NullElt THEN match
          ELSE findClosestInAncestorSubtrees(parentElement(startElt), selector)

\* one pass of the loop of resolveTargetChain: op and sel applied to context
ChainStep(op, sel, context) ==
  CASE op = "closest" ->
         LET candidate == closest(context, sel)
         IN IF candidate.threw \/ candidate.elt # NullElt THEN candidate
            ELSE findClosestInAncestorSubtrees(context, sel)
    [] op = "find" ->
         LET found == querySelector(context, sel)
         IN IF found.threw \/ found.elt # NullElt THEN found
            ELSE findClosestInAncestorSubtrees(parentElement(context), sel)
    [] op = "next" ->
         IF sel = "" /\ NextSiblings(context) # {} THEN SyntaxError
         ELSE Found(First({m \in NextSiblings(context) : matches(m, sel)}))
    [] op = "previous" ->
         IF sel = "" /\ PreviousSiblings(context) # {} THEN SyntaxError
         ELSE Found(Last({m \in PreviousSiblings(context) : matches(m, sel)}))
    [] OTHER -> Found(NullElt)

\* ops[i], and ops[i] || ''
OpAt(ops, i) == ops[i]
SelAt(ops, i) == IF i + 1 <= Len(ops) THEN ops[i + 1] ELSE ""

RECURSIVE ChainLoopFromSource(_, _, _)
\* the loop with every step applied to the source element
ChainLoopFromSource(ops, i, sourceElt) ==
  IF i > Len(ops) THEN Found(sourceElt)
  ELSE LET step == ChainStep(OpAt(ops, i), SelAt(ops, i), sourceElt)
       IN IF step.threw \/ step.elt = NullElt \/ i + 2 > Len(ops) THEN step
          ELSE ChainLoopFromSource(ops, i + 2, sourceElt)

RECURSIVE ChainLoop(_, _, _)
\* resolveTargetChain: the for loop from index i on, with the context so far
ChainLoop(ops, i, context) ==
  IF i > Len(ops) THEN Found(context)
  ELSE LET step == ChainStep(OpAt(ops, i), SelAt(ops, i), context)
       IN IF step.threw \/ step.elt = NullElt THEN step
          ELSE ChainLoop(ops, i + 2, step.elt)

\* selector.startsWith(op) for some combinator op
IsChain(ops) == \E op \in Combinators : StartsWith(ops[1], op)

resolveTargetChainFromSource(sourceElt, ops) ==
  IF ops = <<>> \/ ops = <<"this">> THEN Found(sourceElt)
  ELSE IF IsChain(ops) THEN ChainLoopFromSource(ops, 1, sourceElt)
  ELSE documentQuerySelector(ops)

\* resolveTargetChain(sourceElt, targetSelector), targetSelector given as
\* its tokens
resolveTargetChain(sourceElt, ops) ==
  IF ops = <<>> \/ ops = <<"this">> THEN Found(sourceElt)
  ELSE IF IsChain(ops) THEN ChainLoop(ops, 1, sourceElt)
  ELSE documentQuerySelector(ops)

\* the elements that carry hx-target
TargetSources == {4, 8, 9}

TargetInit ==
  /\ FreshEngine(Targets, {<<"a">>})
  /\ raw = [s \in Sources |-> RawAbsent]
  /\ hxTarget = [s \in Sources |-> "t1"]
  /\ \E src \in TargetSources, sel \in TargetSelectors :
       probe = [fn |-> "input", sourceElt |-> src, targetSelector |-> sel]

\* resolveTargetChain(sourceElt, targetSelector) is called
ResolveTarget ==
  /\ probe.fn = "input"
  /\ probe' = [fn |-> "resolveTargetChain", sourceElt |-> probe.sourceElt,
               targetSelector |-> probe.targetSelector,
               result |-> resolveTargetChain(probe.sourceElt, probe.targetSelector)]
  /\ UNCHANGED <<dom, raw, hxTarget, configCache, snapshots, tokens,
                 sourceTargets, timers, requested, cycles, pre, applied, phase>>

TargetSpec == TargetInit /\ [][ResolveTarget]_vars

\* ------------------------------------------------- notification events
\* The engine of Spec with the notifications it sends through htmx.trigger:
\* probe.emitted[t] lists the events dispatched on t, in order.
MaxNotes == 6     \* notification events on one target in one run

APPLIED  == "optimistic:applied"
ERROR    == "optimistic:error"
REVERTED == "optimistic:reverted"

\* htmx.trigger(t, name, ...)
Trigger(t, name) ==
  [probe EXCEPT !.emitted[t] = Append(@, name)]
CanTrigger(t) == Len(probe.emitted[t]) < MaxNotes

\* handleBeforeRequest gets to its last line
beginApplies(s) == hasOptimisticConfig(s) /\ getTargetFor(s) # NoMatch

\* handleError gets past its three returns
errorShows(s) ==
  LET t == errorTargetFor(s)
  IN /\ HasSnapshot(t) \/ hasOptimisticConfig(s)
     /\ ~(HasSnapshot(t) /\ snapshots[t].token # TokenOf(t))

NotifyInit ==
  /\ FreshEngine(Targets, InitialClassNames)
  /\ \E p \in ConfigPairs :
       raw = [s \in Sources |-> RawObject(IF s = "s1" THEN p[1] ELSE p[2])]
  /\ hxTarget = [s \in Sources |-> "t1"]
  /\ probe = [fn |-> "htmx.trigger", emitted |-> [t \in Targets |-> <<>>]]

\* htmx:beforeRequest on trigger s
NotifyBegin(s) ==
  /\ Begins < MaxBegins
  /\ beginApplies(s) => CanTrigger(getTargetFor(s))
  /\ handleBeforeRequest(s)
  /\ probe' = IF beginApplies(s) THEN Trigger(getTargetFor(s), APPLIED) ELSE probe

\* a failure event on trigger s
NotifyFail(s, focused) ==
  /\ s \in requested
  /\ errorShows(s) => CanTrigger(errorTargetFor(s))
  /\ handleError(s, focused)
  /\ probe' = IF errorShows(s) THEN Trigger(errorTargetFor(s), ERROR) ELSE probe

\* a pending timer fires
NotifyRevert(tm) ==
  /\ revertPasses(tm.target, tm.expectedToken) => CanTrigger(tm.target)
  /\ TimerFires(tm)
  /\ probe' = IF revertPasses(tm.target, tm.expectedToken)
              THEN Trigger(tm.target, REVERTED) ELSE probe

NotifyNext ==
  \/ \E s \in Sources : NotifyBegin(s)
  \/ \E s \in Sources, focused \in BOOLEAN : NotifyFail(s, focused)
  \/ \E t \in Targets : AfterSwap(t)
  \/ \E tm \in BagToSet(timers) : NotifyRevert(tm)

NotifySpec == NotifyInit /\ [][NotifyNext]_vars

\* ------------------------------------------------ template references
\* Two triggers of one target whose templates are references: those of s1
\* resolve to no element, those of s2 to the <template id="tpl"> of the page.
MaxTemplateBegins == 2   \* begins in one run of TemplateSpec

\* the config of the test 'warns when template selectors do not resolve',
\* and the same with the default delay and appended errors
MissingTemplates == Cfg({}, "#missing", "", "", "#missing-err", "replace", 0)
MissingTemplatesAppend ==
  Cfg({}, "#missing", "beforeend", "", "#missing-err", "append", DefaultDelay)
PageTemplate == Cfg({}, "#tpl", "beforeend", "", "#tpl", "append", DefaultDelay)
TemplatePairs ==
  { <<MissingTemplates, PageTemplate>>, <<MissingTemplatesAppend, PageTemplate>> }

\* the template is a reference to no element of the page
Unresolved(templateId) ==
  IsReference(templateId) /\ templateId \notin PageTemplates

\* the config handleError works with (lines 64-65)
errorConfig(s) ==
  IF HasSnapshot(errorTargetFor(s)) THEN snapshots[errorTargetFor(s)].config
  ELSE getOptimisticConfig(s)

\* what the last handler did on its target: the markup it found, whether it
\* asked getTemplate for a reference that did not resolve, whether it warned
Step(fn, t, needed, warned) ==
  [fn |-> fn, target |-> t, before |-> dom[t].innerHTML,
   needed |-> needed, warned |-> warned]

TemplateInit ==
  /\ FreshEngine(Targets, {<<"a">>})
  /\ \E p \in TemplatePairs :
       raw = [s \in Sources |-> RawObject(IF s = "s1" THEN p[1] ELSE p[2])]
  /\ hxTarget = [s \in Sources |-> "t1"]
  /\ probe = NoCall

\* htmx:beforeRequest on trigger s
TemplateBegin(s) ==
  /\ Begins < MaxTemplateBegins
  /\ handleBeforeRequest(s)
  /\ probe' = IF beginApplies(s)
              THEN LET config == getOptimisticConfig(s)
                   IN Step("handleBeforeRequest", getTargetFor(s),
                           Unresolved(config.template),
                           applyOptimisticWarns(config))
              ELSE NoCall

\* a failure event on trigger s
TemplateFail(s, focused) ==
  /\ s \in requested
  /\ handleError(s, focused)
  /\ probe' = IF errorShows(s)
              THEN LET config == errorConfig(s)
                       t == errorTargetFor(s)
                   IN Step("handleError", t,
                           /\ dom[t].dataset[ERROR_SHOWN_KEY] = Absent
                           /\ Unresolved(config.errorTemplate),
                           showErrorWarns(dom[t], config))
              ELSE NoCall

\* htmx:afterSwap on t
TemplateAfterSwap(t) ==
  /\ cleanup(t)
  /\ probe' = NoCall

\* a pending timer fires
TemplateRevert(tm) ==
  /\ TimerFires(tm)
  /\ probe' = NoCall

TemplateNext ==
  \/ \E s \in Sources : TemplateBegin(s)
  \/ \E s \in Sources, focused \in BOOLEAN : TemplateFail(s, focused)
  \/ \E t \in Targets : TemplateAfterSwap(t)
  \/ \E tm \in BagToSet(timers) : TemplateRevert(tm)

TemplateSpec == TemplateInit /\ [][TemplateNext]_vars

\* ------------------------------------------------ begins and failures only
\* One target and its two triggers, both with a delay above 0.  The host
\* sends htmx:beforeRequest and, for each request, at most one failure
\* event; no swap completes.  probe.failures[s] counts the failure events
\* of trigger s.
MaxSequenceBegins == 3   \* begins in one run of SequenceSpec

SequencePairs == { <<ReplaceText, KeepValues>>, <<AppendText, ReplaceText>> }

\* the requests of trigger s so far
RequestsOf(s) == Cardinality(CyclesOf(s))

SequenceInit ==
  /\ FreshEngine(Targets, {<<"a">>})
  /\ \E p \in SequencePairs :
       raw = [s \in Sources |-> RawObject(IF s = "s1" THEN p[1] ELSE p[2])]
  /\ hxTarget = [s \in Sources |-> "t1"]
  /\ probe = [fn |-> "sequence", failures |-> [s \in Sources |-> 0]]

\* htmx:beforeRequest on trigger s
SequenceBegin(s) ==
  /\ Begins < MaxSequenceBegins
  /\ handleBeforeRequest(s)
  /\ UNCHANGED probe

\* the failure event of a request of trigger s that has had none yet
SequenceFail(s, focused) ==
  /\ probe.failures[s] < RequestsOf(s)
  /\ handleError(s, focused)
  /\ probe' = [probe EXCEPT !.failures[s] = @ + 1]

SequenceNext ==
  \/ \E s \in Sources : SequenceBegin(s)
  \/ \E s \in Sources, focused \in BOOLEAN : SequenceFail(s, focused)
  \/ \E tm \in BagToSet(timers) : FireTimer(tm)

SequenceSpec == SequenceInit /\ [][SequenceNext]_vars

\* ------------------------------------------- two targets, config.target
\* A page with two elements of which neither contains the other, t1 the
\* hx-target of trigger s1 and t2 that of trigger s2.  The config of s1 may
\* name t2 as its `target` (e.g. "next .feedback").
AlternateElements == {"t1", "t2"}

\* { values: { textContent }, target: <a selector that resolves to t2> }
FeedbackCfg == [ReplaceText EXCEPT !.target = "t2"]
\* { values: { textContent }, target: <a selector that matches nothing> }
NoMatchCfg == [ReplaceText EXCEPT !.target = NoMatch]

\* the data-optimistic of the two triggers, <<s1, s2>>
AlternatePairs ==
  { <<FeedbackCfg, ReplaceText>>,
    <<ReplaceText, AppendText>>,
    <<NoMatchCfg, KeepValues>> }

AlternateInit ==
  /\ FreshEngine(AlternateElements, {<<"a">>})
  /\ \E p \in AlternatePairs :
       raw = [s \in Sources |-> RawObject(IF s = "s1" THEN p[1] ELSE p[2])]
  /\ hxTarget = [s \in Sources |-> IF s = "s1" THEN "t1" ELSE "t2"]
  /\ probe = NoCall

\* on this page the host sends no failure while a revert callback is
\* pending on the element the failure would act on
AlternateNext ==
  \/ \E s \in Sources : Begin(s)
  \/ \E s \in Sources, focused \in BOOLEAN :
       /\ \A tm \in BagToSet(timers) : tm.target # errorTargetFor(s)
       /\ Fail(s, focused)
  \/ \E t \in AlternateElements : AfterSwap(t)
  \/ \E tm \in BagToSet(timers) : FireTimer(tm)

AlternateSpec == AlternateInit /\ [][AlternateNext]_vars

\* ================================================================= claims
ErrorMessageCount(el) == Len(SelectSeq(el.innerHTML, LAMBDA n : n = CLASS_ERROR_MESSAGE))

\* the element carries nothing the engine adds: no state class, no
\* error-message node, no hxOptimistic* dataset key
IsPristine(el) ==
  /\ IsClean(el)
  /\ ErrorMessageCount(el) = 0
  /\ el.dataset[ERROR_SHOWN_KEY] = Absent

\* ---------------------------------------------------------------- C1
\* C1: a revert callback scheduled during one cycle of a target changes
\* neither the target nor its snapshot and token entries once a later begin
\* has occurred on that target.
C1_StaleRevertIsNoOp ==
  [][\A tm \in BagToSet(timers) :
       (FireTimer(tm) /\ tm.of = "earlier")
       => UNCHANGED <<dom, snapshots, tokens>>]_vars

\* ---------------------------------------------------------------- C2
\* the cycles of trigger s all precede the current cycle of its target (which
\* another trigger began): a failure event on s belongs to an older cycle
OnlyOlderCycles(s) ==
  /\ CyclesOf(s) # {}
  /\ \A cyc \in CyclesOf(s) : cyc < Epoch(hxTarget[s])

\* C2: a failure event that belongs to a cycle older than the target's
\* current one changes nothing: no class, no content, no revert scheduled,
\* the snapshot of the current cycle intact.
C2_StaleFailIsNoOp ==
  [][\A s \in Sources, focused \in BOOLEAN :
       (OnlyOlderCycles(s) /\ Fail(s, focused))
       => UNCHANGED <<dom, snapshots, tokens, timers>>]_vars

\* ---------------------------------------------------------------- C3
\* C3: begin on a clean target, then fail, then the scheduled revert, leave
\* markup, class string, attributes and dataset as they were before begin.
C3_RoundTrip ==
  \A t \in Targets :
    (phase[t] = "reverted" /\ IsPristine(pre[t])) => dom[t] = pre[t]

\* C3 as amended: the round trip restores markup, attributes and dataset
\* exactly, and the class string as the token list of the pre-begin class
\* string (what classList writes back); so exactly when the pre-begin class
\* string was already such a list.
C3_RoundTripUpToClassTokens ==
  \A t \in Targets :
    (phase[t] = "reverted" /\ IsPristine(pre[t]))
    => dom[t] = [pre[t] EXCEPT !.className = Dedup(pre[t].className)]

C3_Witness ==
  \E t \in Targets :
    /\ phase[t] = "reverted"
    /\ IsPristine(pre[t])
    /\ pre[t].className = <<"a">>
    /\ dom[t] = pre[t]

\* ---------------------------------------------------------------- C4
\* C4: while the target is in the error state under a config with delay 0,
\* no firing revert callback changes the target.
C4_NoAutomaticRevertAtDelayZero ==
  [][\A tm \in BagToSet(timers) :
       (/\ FireTimer(tm)
        /\ Has(dom[tm.target].className, CLASS_ERROR)
        /\ HasSnapshot(tm.target)
        /\ snapshots[tm.target].full
        /\ snapshots[tm.target].config.delay = 0)
       => dom'[tm.target] = dom[tm.target]]_vars

\* ---------------------------------------------------------------- C5
\* a failure has acted on the cycle begun last, whose config has delay > 0
FailedWithDelay(t) ==
  /\ phase[t] = "failed"
  /\ HasSnapshot(t)
  /\ snapshots[t].full
  /\ snapshots[t].config.delay > 0

\* a begin or a cleanup has occurred on t since the failure
BegunOrCleanedSince(t) == phase[t] \in {"begun", "cleaned", "none"}

\* C5: after a failure on a target whose snapshot was taken by begin, under
\* a delay greater than 0, and with no further begin or cleanup, the target
\* eventually is clean, holds the snapshot's content and has no snapshot.
C5_EventuallyReverted ==
  \A t \in Targets :
    FailedWithDelay(t) ~>
      \/ BegunOrCleanedSince(t)
      \/ /\ phase[t] = "reverted"
         /\ IsClean(dom[t])
         /\ dom[t].innerHTML = pre[t].innerHTML
         /\ ~HasSnapshot(t)

\* C5 as amended: ... holds the snapshot's content less the error-message
\* nodes that were in it (cleanup, the last step of revert, removes them).
C5_EventuallyRevertedLessErrorMessages ==
  \A t \in Targets :
    FailedWithDelay(t) ~>
      \/ BegunOrCleanedSince(t)
      \/ /\ phase[t] = "reverted"
         /\ IsClean(dom[t])
         /\ dom[t].innerHTML = RemoveErrorMessages(pre[t].innerHTML)
         /\ ~HasSnapshot(t)

C5_Witness ==
  \E t \in Targets :
    /\ phase[t] = "reverted"
    /\ IsClean(dom[t])
    /\ dom[t].innerHTML = pre[t].innerHTML
    /\ ~HasSnapshot(t)
    /\ cfgOf[cycles[t][Epoch(t)].src].delay > 0

\* ---------------------------------------------------------------- C6
\* C6: after begin and then cleanup, and whatever timers fire later, the
\* target has none of the three state classes and its markup is the one
\* begin left (error-message nodes, which cleanup removes, aside): the
\* snapshot's markup is not put back.
C6_CleanupKeepsOptimisticContent ==
  \A t \in Targets :
    phase[t] = "cleaned"
    => /\ IsClean(dom[t])
       /\ dom[t].innerHTML = RemoveErrorMessages(applied[t].innerHTML)

C6_Witness ==
  \E t \in Targets :
    /\ phase[t] = "cleaned"
    /\ Has(dom[t].innerHTML, "optimistic")
    /\ ~Has(dom[t].innerHTML, "orig")
    /\ IsClean(dom[t])

\* ---------------------------------------------------------------- C7
\* C7: once failure events have acted on a cycle whose error mode is append,
\* the target contains exactly one error-message node.
C7_OneErrorMessagePerCycle ==
  \A t \in Targets :
    (phase[t] = "failed" /\ HasSnapshot(t) /\ snapshots[t].config.errorMode = "append")
    => ErrorMessageCount(dom[t]) = 1

\* ---------------------------------------------------------------- C8
\* C8: the target never carries two of the three state classes; after begin
\* it carries exactly hx-optimistic, after a failure event exactly
\* hx-optimistic-error, after cleanup and after a revert that acted none.
C8_OneStateClass ==
  /\ [](\A t \in Targets : Cardinality(StateClassesOn(dom[t])) <= 1)
  /\ [][/\ \A s \in Sources :
             Begin(s) => StateClassesOn(dom'[hxTarget[s]]) = {CLASS_OPTIMISTIC}
        /\ \A s \in Sources, focused \in BOOLEAN :
             Fail(s, focused) => StateClassesOn(dom'[hxTarget[s]]) = {CLASS_ERROR}
        /\ \A t \in Targets :
             AfterSwap(t) => StateClassesOn(dom'[t]) = {}
        /\ \A tm \in BagToSet(timers) :
             (FireTimer(tm) /\ revertPasses(tm.target, tm.expectedToken))
             => StateClassesOn(dom'[tm.target]) = {}]_vars

C8_Witness ==
  \E t \in Targets :
    /\ phase[t] = "failed"
    /\ StateClassesOn(dom[t]) = {CLASS_ERROR}
    /\ Has(dom[t].className, "custom")

\* ---------------------------------------------------------------- C9
\* C9: the tokens allocated by the begins of one target strictly increase.
C9_TokensStrictlyIncrease ==
  \A t \in Targets : \A i, j \in 1..Epoch(t) :
    i < j => cycles[t][i].token < cycles[t][j].token

C11_NoEngineKeyOnElements ==
  \A t \in DOMAIN dom :
    phase[t] \in {"begun", "failed"}
    => \A k \in EngineKeys : dom[t].dataset[k] = Absent

\* C11 as amended: begin writes no such key (the target keeps the keys it
\* had), and a failure event leaves exactly one on the target, the marker
\* hxOptimisticErrorShown = 'true'; no other key with the prefix ever appears.
C11_OnlyErrorShownMarker ==
  \A t \in DOMAIN dom :
    /\ \A k \in EngineKeys \ {ERROR_SHOWN_KEY} : dom[t].dataset[k] = Absent
    /\ phase[t] = "begun"
       => dom[t].dataset[ERROR_SHOWN_KEY] = pre[t].dataset[ERROR_SHOWN_KEY]
    /\ phase[t] = "failed" => dom[t].dataset[ERROR_SHOWN_KEY] = "true"

C11_Witness ==
  \E t \in DOMAIN dom :
    /\ phase[t] = "failed"
    /\ HasSnapshot(t)
    /\ t \in DOMAIN tokens
    /\ dom[t].dataset[ERROR_SHOWN_KEY] = "true"
    /\ dom[t].dataset[TOKEN_KEY] = Absent

\* --------------------------------------------------------------- C12
\* C12: from any state, a failure event of one of the four kinds for a
\* trigger gives the same stores, the same elements and the same pending
\* callbacks as a failure event of any other of the four kinds would.
C12_FailureKindsAlike ==
  [][\A s \in HostSources, focused \in BOOLEAN :
       LET byResponseError == onEvent("htmx:responseError", s, focused)
       IN \A k \in {"htmx:swapError", "htmx:timeout", "htmx:sendError"} :
            onEvent(k, s, focused) <=> byResponseError]_vars

C12_Witness ==
  /\ probe.fn = "handleError"
  /\ \E e \in DOMAIN dom :
       /\ Has(dom[e].className, CLASS_ERROR)
       /\ dom[e].dataset[ERROR_SHOWN_KEY] = "true"
  /\ timers # EmptyBag

\* --------------------------------------------------------------- C13
\* C13: htmx:beforeRequest for a trigger that has a config and whose
\* hx-target resolves to no element changes no element, allocates no token,
\* stores no snapshot and no trigger-to-target link, and schedules nothing.
C13_NoTargetNoEffect ==
  [][\A s \in HostSources :
       (/\ hasOptimisticConfig(s)
        /\ hxTarget[s] = NoMatch
        /\ onEvent("htmx:beforeRequest", s, FALSE))
       => UNCHANGED <<dom, tokens, snapshots, sourceTargets, timers>>]_vars

C13_Witness ==
  \E s \in HostSources :
    /\ s \in requested
    /\ hasOptimisticConfig(s)
    /\ hxTarget[s] = NoMatch
    /\ \A e \in DOMAIN cycles : cycles[e] = <<>>
    /\ s \in DOMAIN configCache

\* --------------------------------------------------------------- C14
\* C14: a failure event for a trigger without data-optimistic whose target
\* has no snapshot changes no element, stores no snapshot and schedules no
\* revert.
C14_NoConfigNoSnapshotNoEffect ==
  [][\A s \in HostSources, focused \in BOOLEAN :
       (/\ raw[s].kind = "absent"
        /\ ~HasSnapshot(errorTargetFor(s))
        /\ onEvent("htmx:responseError", s, focused))
       => UNCHANGED <<dom, tokens, snapshots, sourceTargets, timers>>]_vars

C14_Witness ==
  /\ probe.fn = "handleError"
  /\ raw[probe.elt].kind = "absent"
  /\ snapshots = EmptyMap

\* --------------------------------------------------------------- C15
\* C15: when the config of a cycle lists properties in `snapshot`, then
\* after begin, fail and the revert each listed property of the target has
\* the value it had just before begin.
C15_ListedPropertiesRestored ==
  \A t \in DOMAIN dom :
    phase[t] = "reverted"
    => \A k \in cfgOf[cycles[t][Epoch(t)].src].snapshot :
         granularValue(dom[t], k) = granularValue(pre[t], k)

\* --------------------------------------------------------------- C16
\* C16: whatever begins, failures and rewrites of the attribute came before,
\* getOptimisticConfig returns the record that the element's raw value of
\* that moment parses to, also when the cache holds a record for another
\* raw value.
C16_ResolvesCurrentRaw ==
  (probe.fn = "getOptimisticConfig" /\ ~probe.null)
  => probe.config = FillDefaults(ParseRaw(probe.raw), probe.elt)

C16_Witness ==
  /\ probe.fn = "getOptimisticConfig"
  /\ ~probe.null
  /\ probe.cached = "other raw"
  /\ probe.elt \in requested
  /\ configCache[probe.elt].raw = probe.raw

\* --------------------------------------------------------------- C17
\* C17: a resolved config has delay 2000 when the attribute gives no delay
\* and delay 0 when it gives 0, errorMode 'replace' when it gives none, and
\* errorMessage 'Request failed' when it gives none.
C17_Defaults ==
  (probe.fn = "getOptimisticConfig" /\ ~probe.null)
  => LET given == IF probe.raw.kind = "object" THEN probe.raw.supplied ELSE NoKeys
     IN /\ given.delay = NoDelay => probe.config.delay = 2000
        /\ given.delay = 0 => probe.config.delay = 0
        /\ given.errorMode = "" => probe.config.errorMode = "replace"
        /\ given.errorMessage = "" => probe.config.errorMessage = "Request failed"

C17_Witness ==
  /\ probe.fn = "getOptimisticConfig"
  /\ ~probe.null
  /\ probe.raw = RawObject(ZeroDelayCfg)
  /\ probe.config.delay = 0
  /\ probe.config.errorMode = "replace"

\* --------------------------------------------------------------- C18
\* C18: htmx:beforeRequest for a trigger whose data-optimistic is "true" or
\* the empty string, and whose target resolves, starts a cycle: the target
\* has a token and a snapshot and carries the optimistic class.
C18_TrueOrEmptyStartsCycle ==
  [][\A s \in HostSources :
       (/\ raw[s].kind \in {"true", "empty"}
        /\ hxTarget[s] # NoMatch
        /\ onEvent("htmx:beforeRequest", s, FALSE))
       => LET t == IF hxTarget[s] = NoAttr THEN s ELSE hxTarget[s]
          IN /\ t \in DOMAIN tokens'
             /\ t \in DOMAIN snapshots'
             /\ Has(dom'[t].className, CLASS_OPTIMISTIC)]_vars

\* --------------------------------------------------------------- C19
\* C19: a failure event changes no element, snapshot or pending callback
\* other than those of one element: the one the trigger's hx-target
\* resolves to if it has one that resolves, else the target recorded for
\* the trigger at its begin, else the trigger itself.
C19_FailTargetPrecedence ==
  [][\A s \in HostSources, focused \in BOOLEAN :
       onEvent("htmx:responseError", s, focused)
       => LET expected == IF hxTarget[s] \in HostElements THEN hxTarget[s]
                          ELSE IF s \in DOMAIN sourceTargets THEN sourceTargets[s]
                          ELSE s
          IN /\ \A e \in DOMAIN dom \ {expected} :
                  /\ dom'[e] = dom[e]
                  /\ Get(snapshots', e) = Get(snapshots, e)
             /\ \A tm \in BagToSet(timers') :
                  CopiesIn(tm, timers') > CopiesIn(tm, timers) => tm.target = expected]_vars

\* the selector stopped resolving after begin, and the failure went to the
\* element begin had mutated
C19_Witness ==
  /\ probe.fn = "handleError"
  /\ probe.via = "link"
  /\ hxTarget[probe.elt] = NoMatch
  /\ sourceTargets[probe.elt] # probe.elt
  /\ phase[sourceTargets[probe.elt]] = "failed"
  /\ Has(dom[sourceTargets[probe.elt]].className, CLASS_ERROR)
  /\ IsClean(dom[probe.elt])

\* --------------------------------------------------------------- C20
\* the placeholders no rule resolves: the expression is no key of the extra
\* map, and it is an arithmetic, call or global-object expression, or a name
\* for which the source has no form field, or a data attribute or attribute
\* the source does not carry
C20_NoRuleResolves(e, src, data) ==
  /\ e.text \notin DOMAIN data
  /\ CASE e.form = "other" -> TRUE
       [] e.form = "bare" -> src.tag # "FORM" \/ FieldValue(src, e.text) = UndefinedValue
       [] e.form = "this.dataset." -> e.name \notin DOMAIN src.dataset
       [] e.form = "data:" -> CamelKey(e.name) \notin DOMAIN src.dataset
       [] e.form = "attr:" -> e.name \notin DOMAIN src.attributes
       [] OTHER -> FALSE

\* C20: interpolation returns a result in which every placeholder that no
\* rule resolves stands as it was written, and every literal piece too.
C20_UnresolvedLeftLiteral ==
  probe.fn = "interpolateTemplate"
  => \A i \in 1..Len(probe.str) :
       (\/ probe.str[i].kind = "text"
        \/ C20_NoRuleResolves(probe.str[i].expr, probe.source, probe.data))
       => /\ ~probe.result.threw
          /\ probe.result.out[i] = probe.str[i]

\* --------------------------------------------------------------- C21
\* the expression has a '.' or ':' and is none of the recognized forms
C21_Unrecognized(e) == HasDotOrColon(e) /\ e.form = "other"

\* C21: in one interpolation call every placeholder that no rule resolves
\* and whose expression has a '.' or ':' without being a recognized form
\* gets its diagnostic, and no placeholder that was resolved gets one.
C21_OneDiagnosticPerUnresolved ==
  probe.fn = "interpolateTemplate"
  => \A i \in 1..Len(probe.str) :
       probe.str[i].kind = "placeholder"
       => /\ (/\ C21_Unrecognized(probe.str[i].expr)
              /\ C20_NoRuleResolves(probe.str[i].expr, probe.source, probe.data))
             => i \in probe.result.warnedAt
          /\ (~probe.result.threw /\ probe.result.out[i] # probe.str[i])
             => i \notin probe.result.warnedAt

\* --------------------------------------------------------------- C22
\* C22: for a placeholder whose expression is a key of the extra map the
\* replace callback returns the extra value, without warning or throwing,
\* whatever the source element holds for that expression; a call that
\* returns has that value in the placeholder's place.
C22_ExtraValueWins ==
  probe.fn = "interpolateTemplate"
  => \A i \in 1..Len(probe.str) :
       (/\ probe.str[i].kind = "placeholder"
        /\ probe.str[i].expr.text \in DOMAIN probe.data)
       => LET extra == TextPiece(probe.data[probe.str[i].expr.text])
          IN /\ Replacer(probe.str[i].expr, probe.source, probe.data)
                  = Outcome(extra, FALSE, FALSE)
             /\ ~probe.result.threw => probe.result.out[i] = extra

\* ${email} on a form whose email field is filled in, with an extra map
\* that has another value for email: the extra value stands in the result
C22_Witness ==
  /\ probe.fn = "interpolateTemplate"
  /\ ~probe.result.threw
  /\ \E i \in 1..Len(probe.str) :
       /\ probe.str[i] = Placeholder(Bare("email"))
       /\ "email" \in DOMAIN probe.data
       /\ probe.source.tag = "FORM"
       /\ Truthy(FieldValue(probe.source, "email"))
       /\ FieldValue(probe.source, "email") # probe.data["email"]
       /\ probe.result.out[i] = TextPiece(probe.data["email"])

\* --------------------------------------------------------------- C23
\* the index of the last (combinator, argument) pair of a chain
C23_LastStep(ops) == IF Len(ops) % 2 = 1 THEN Len(ops) ELSE Len(ops) - 1
\* the selector has no match anywhere in the document
C23_NoMatchAnywhere(sel) == sel # "" /\ \A n \in Elts : ~matches(n, sel)

\* C23: a combinator chain is evaluated left to right, each step applied
\* to the result of the steps before it; a result that is an element
\* matches the selector of the last step; the result is null whenever the
\* selector of some step matches no element of the document; and
\* `closest .card find .title` from the button in the first card is that
\* card's title.
C23_ChainLeftToRight ==
  (probe.fn = "resolveTargetChain" /\ probe.targetSelector # <<>>
     /\ probe.targetSelector[1] \in Combinators)
  => LET ops == probe.targetSelector
         last == C23_LastStep(ops)
         before == resolveTargetChain(probe.sourceElt, SubSeq(ops, 1, last - 1))
     IN /\ probe.result =
             IF last = 1
             THEN ChainStep(ops[1], SelAt(ops, 1), probe.sourceElt)
             ELSE IF before.threw \/ before.elt = NullElt THEN before
             ELSE ChainStep(ops[last], SelAt(ops, last), before.elt)
        /\ (~probe.result.threw /\ probe.result.elt # NullElt)
           => matches(probe.result.elt, SelAt(ops, last))
        /\ (\E i \in 1..Len(ops) : i % 2 = 1 /\ C23_NoMatchAnywhere(SelAt(ops, i)))
           => probe.result = Found(NullElt)
        /\ (probe.sourceElt = 4 /\ ops = <<"closest", ".card", "find", ".title">>)
           => probe.result = Found(5)

\* the chain of the example was resolved from the button in the first card
C23_Witness ==
  /\ probe.fn = "resolveTargetChain"
  /\ probe.sourceElt = 4
  /\ probe.targetSelector = <<"closest", ".card", "find", ".title">>
  /\ probe.result = Found(5)

\* a chain whose second step names a selector without match gave null
C23_WitnessNoMatch ==
  /\ probe.fn = "resolveTargetChain"
  /\ probe.targetSelector = <<"closest", ".card", "find", ".none">>
  /\ probe.result = Found(NullElt)

\* --------------------------------------------------------------- C24
\* C24: a target selector (other than the empty one and the self marker
\* `this`) whose first token is not one of the four combinators is resolved
\* by a query of the whole document: the result is the first element, in
\* document order, that matches the selector, or null when none does.
C24_PlainSelectorIsGlobalQuery ==
  (/\ probe.fn = "resolveTargetChain"
   /\ probe.targetSelector \notin {<<>>, <<"this">>}
   /\ probe.targetSelector[1] \notin Combinators)
  => probe.result =
       Found(First({n \in Elts : MatchesSelector(n, probe.targetSelector)}))

\* --------------------------------------------------------------- C25
\* the target after cleanup(t) was called in the current state, and after
\* it was called once more (the first call deleted the snapshot)
C25_Once(t) ==
  cleanupElement(dom[t], HasSnapshot(t),
                 IF HasSnapshot(t) THEN snapshots[t]
                 ELSE BareSnapshot(cfgOf["s1"], Undefined))
C25_Twice(t) ==
  cleanupElement(C25_Once(t), FALSE, BareSnapshot(cfgOf["s1"], Undefined))
\* the target is clean: no state class, no error message, no marker, no
\* snapshot
C25_AlreadyClean(t) == IsPristine(dom[t]) /\ ~HasSnapshot(t)

\* C25: cleanup on a target that is clean changes nothing, and a second
\* cleanup right after a first leaves the target and the stores as the
\* first left them.
C25_CleanupIdempotent ==
  \A t \in Targets :
    /\ C25_Twice(t) = C25_Once(t)
    /\ Delete(cleanupSnapshots(t), t) = cleanupSnapshots(t)
    /\ C25_AlreadyClean(t)
       => C25_Once(t) = dom[t] /\ cleanupSnapshots(t) = snapshots

\* C25 as amended: a second cleanup changes nothing; cleanup on a clean
\* target leaves markup, attributes, dataset and stores alone and writes
\* the class string back as its token list (what classList.remove does even
\* when it removes nothing).
C25_CleanupIdempotentUpToClassTokens ==
  \A t \in Targets :
    /\ C25_Twice(t) = C25_Once(t)
    /\ Delete(cleanupSnapshots(t), t) = cleanupSnapshots(t)
    /\ C25_AlreadyClean(t)
       => /\ C25_Once(t) = [dom[t] EXCEPT !.className = Dedup(@)]
          /\ cleanupSnapshots(t) = snapshots

\* cleanup has run on a target after a begin and left it clean
C25_Witness ==
  \E t \in Targets :
    /\ phase[t] = "cleaned"
    /\ C25_AlreadyClean(t)
    /\ C25_Once(t) = dom[t]

\* --------------------------------------------------------------- C26
\* the custom state classes of the configs
C26_CustomClasses == {c.class : c \in Configs} \ {""}

\* C26: a target that cleanup brought back to the clean state after a
\* successful swap carries no custom state class (no element of the page
\* has one of its own, so every one was added by a begin).
C26_NoCustomClassAfterCleanup ==
  \A t \in Targets :
    phase[t] = "cleaned"
    => \A c \in C26_CustomClasses : ~Has(dom[t].className, c)

\* --------------------------------------------------------------- C27
\* the visual state of an element: Idle when it has no state class
C27_VisualState(el) ==
  IF Has(el.className, CLASS_ERROR) THEN "Error"
  ELSE IF Has(el.className, CLASS_REVERTING) THEN "Reverting"
  ELSE IF Has(el.className, CLASS_OPTIMISTIC) THEN "Optimistic"
  ELSE "Idle"

\* the changes of visual state one handler may make; revert passes through
\* Reverting within the handler, from Error to Idle
C27_Transitions ==
  { <<"Idle", "Optimistic">>, <<"Optimistic", "Error">>,
    <<"Error", "Idle">>, <<"Optimistic", "Idle">> }

\* C27: the visual state of a target changes only from Idle to Optimistic,
\* from Optimistic to Error, from Error (through Reverting) to Idle and
\* from Optimistic to Idle; so it becomes Error only from Optimistic.
C27_OnlyCycleTransitions ==
  [][\A t \in Targets :
       C27_VisualState(dom[t]) # C27_VisualState(dom'[t])
       => <<C27_VisualState(dom[t]), C27_VisualState(dom'[t])>> \in C27_Transitions]_vars

\* --------------------------------------------------------------- C28
\* C28: on every target each optimistic:reverted comes after an
\* optimistic:error that comes after an optimistic:applied, with no other
\* optimistic:reverted between that applied and it.
C28_NotificationOrder ==
  \A t \in Targets :
    LET log == probe.emitted[t]
    IN \A k \in 1..Len(log) :
         log[k] = REVERTED
         => \E i \in 1..k, j \in 1..k :
              /\ i < j /\ j < k
              /\ log[i] = APPLIED
              /\ log[j] = ERROR
              /\ \A m \in i..(k - 1) : log[m] # REVERTED

\* --------------------------------------------------------------- C29
\* C29: a begin or a fail that asked for a template by a reference that did
\* not resolve has warned and has left the markup of its target as it was.
C29_UnresolvedTemplateLeavesContent ==
  (probe.fn \in {"handleBeforeRequest", "handleError"} /\ probe.needed)
  => /\ probe.warned
     /\ dom[probe.target].innerHTML = probe.before

\* a begin with an unresolved template reference has run
C29_Witness ==
  /\ probe.fn = "handleBeforeRequest"
  /\ probe.needed
  /\ probe.warned
  /\ Has(dom[probe.target].className, CLASS_OPTIMISTIC)
  /\ dom[probe.target].innerHTML = probe.before

\* a fail with an unresolved error template reference has run
C29_WitnessFail ==
  /\ probe.fn = "handleError"
  /\ probe.needed
  /\ probe.warned
  /\ Has(dom[probe.target].className, CLASS_ERROR)
  /\ dom[probe.target].innerHTML = probe.before

\* --------------------------------------------------------------- C30
\* C30: whenever the snapshot store holds a snapshot for a target, the
\* token stored in it is what the token store gives for the target (both
\* undefined for the object a failure stores for a target without token).
C30_SnapshotTokenIsCurrent ==
  \A t \in Targets :
    HasSnapshot(t) => snapshots[t].token = TokenOf(t)

\* a second begin on a target has replaced the snapshot and raised the token
C30_Witness ==
  \E t \in Targets :
    /\ HasSnapshot(t)
    /\ Epoch(t) = 2
    /\ snapshots[t].token = 2
    /\ TokenOf(t) = 2

\* --------------------------------------------------------------- C31
\* C31: after begins and failures only, every request having failed under
\* a delay above 0 and every scheduled revert having fired, the markup of
\* the target is the markup it had before the first begin.
C31_MarkupAsBeforeFirstBegin ==
  \A t \in Targets :
    (/\ Epoch(t) > 0
     /\ \A s \in Sources : probe.failures[s] = RequestsOf(s)
     /\ timers = EmptyBag)
    => dom[t].innerHTML = InitialElement(<<"a">>).innerHTML

\* --------------------------------------------------------------- C32
\* C32: the first failure event of a cycle (it comes from the trigger that
\* began the cycle, and the engine does not take it for stale) renders the
\* error content of the cycle's config on the target: it replaces the
\* markup, or appends one error-message node.
C32_FirstFailureRendersError ==
  [][\A s \in Sources, focused \in BOOLEAN :
       LET t == errorTargetFor(s)
       IN (Fail(s, focused) /\ phase[t] = "begun" /\ phase'[t] = "failed")
          => dom'[t].innerHTML =
               IF snapshots[t].config.errorMode = "append"
               THEN Append(dom[t].innerHTML, CLASS_ERROR_MESSAGE)
               ELSE <<"error">>]_vars

\* --------------------------------------------------------------- C33
\* the revert callbacks pending on t that failures of its current cycle
\* scheduled
C33_PendingOfCycle(t) ==
  LET tm == [target |-> t, expectedToken |-> TokenOf(t), of |-> "current"]
  IN IF BagIn(tm, timers) THEN CopiesIn(tm, timers) ELSE 0

\* C33: at no time is more than one revert callback of the current cycle
\* of a target pending.
C33_OnePendingRevertPerCycle ==
  \A t \in Targets : C33_PendingOfCycle(t) <= 1

\* --------------------------------------------------------------- C34
\* C34: every pending revert callback carries a defined token.
C34_ScheduledRevertHasToken ==
  \A tm \in BagToSet(timers) : tm.expectedToken # Undefined

\* --------------------------------------------------------------- C36
\* C36: a revert that runs on a snapshot which no begin captured (stored by
\* a failure event for a target without snapshot) leaves the target's
\* attributes and the page's own dataset entries as they are.
C36_RevertRestoresOnlyCaptured ==
  [][\A tm \in BagToSet(timers) :
       LET t == tm.target
       IN (FireTimer(tm) /\ HasSnapshot(t) /\ ~snapshots[t].full)
          => /\ dom'[t].attributes = dom[t].attributes
             /\ \A k \in DataKeys \ EngineKeys :
                  dom'[t].dataset[k] = dom[t].dataset[k]]_vars

\* --------------------------------------------------------------- C37
\* t is in the error state and every config on the page has a delay greater
\* than 0, so the failure that put it there scheduled a revert
C37_InErrorUnderDelay(t) ==
  /\ Has(dom[t].className, CLASS_ERROR)
  /\ \A s \in Sources : cfgOf[s].delay > 0

\* C37: a target in the error state under a delay greater than 0 eventually
\* leaves the error state (a begin or a cleanup leaves it as well).
C37_EventuallyLeavesError ==
  \A t \in Targets :
    C37_InErrorUnderDelay(t) ~> ~Has(dom[t].className, CLASS_ERROR)

\* --------------------------------------------------------------- C35
\* C35: after the one begin of a run, a failure and the revert, every
\* element of the page has the content it had before the begin.
C35_AllMutatedElementsRestored ==
  \A t \in AlternateElements :
    (phase[t] = "reverted" /\ Begins = 1)
      => \A e \in AlternateElements :
           dom[e].innerHTML = InitialElement(<<"a">>).innerHTML

\* --------------------------------------------------------------- C38
\* store m has for u what it has after the step
C38_SameEntry(m, n, u) ==
  /\ (u \in DOMAIN m) = (u \in DOMAIN n)
  /\ u \in DOMAIN m => m[u] = n[u]

\* the step leaves snapshot, token and state classes of every element other
\* than t as they are, and the content of those not in `mutated`
C38_Frame(t, mutated) ==
  \A u \in AlternateElements \ {t} :
    /\ C38_SameEntry(snapshots, snapshots', u)
    /\ C38_SameEntry(tokens, tokens', u)
    /\ StateClassesOn(dom'[u]) = StateClassesOn(dom[u])
    /\ u \notin mutated => dom'[u].innerHTML = dom[u].innerHTML

\* begin, fail, cleanup and revert for a target, framed by C38_Frame with
\* begin's exception as given by Mutated(s)
C38_Framed(Mutated(_)) ==
  /\ \A s \in Sources : Begin(s) => C38_Frame(getTargetFor(s), Mutated(s))
  /\ \A s \in Sources, focused \in BOOLEAN :
       Fail(s, focused) => C38_Frame(errorTargetFor(s), {})
  /\ \A t \in AlternateElements : AfterSwap(t) => C38_Frame(t, {})
  /\ \A tm \in BagToSet(timers) : FireTimer(tm) => C38_Frame(tm.target, {})

C38_Nothing(s) == {}
C38_OptimisticTarget(s) ==
  {optimisticTargetFor(getTargetFor(s), getOptimisticConfig(s))}

C39_RefersToEmpty(e, src) ==
  \/ e.form = "this.dataset." /\ Lookup(src.dataset, e.name) = ""
  \/ e.form = "data:" /\ Lookup(src.dataset, CamelKey(e.name)) = ""
  \/ e.form = "attr:" /\ Lookup(src.attributes, e.name) = ""
  \/ src.tag = "FORM" /\ ValidSelector(e) /\ FieldValue(src, e.text) = ""

\* C39: a placeholder that refers to an existing data attribute, attribute
\* or form field whose value is the empty string, and that the extra map
\* does not define, is replaced by the empty string.
C39_EmptyValueReplaces ==
  (probe.fn = "interpolateTemplate" /\ ~probe.result.threw)
    => \A i \in 1..Len(probe.str) :
         LET p == probe.str[i]
         IN (/\ p.kind = "placeholder"
             /\ DataGet(probe.data, p.expr.text) = UndefinedValue
             /\ C39_RefersToEmpty(p.expr, probe.source))
            => probe.result.out[i] = TextPiece("")
====
